---- MODULE Spec2Model ----
(***************************************************************************)
(* Model of the GuerrillaMail client (src/src/client.rs): ClientBuilder,   *)
(* the bootstrap in ClientBuilder::build, and the four API calls of        *)
(* Client.  Text that the code only passes along is a sequence of string   *)
(* fragments; text that the code inspects (the landing page, an email      *)
(* address, the timestamp) is a sequence of one-character fragments.       *)
(* A call is two steps, the request going out and the call returning on    *)
(* the outcome of send(); the caller awaits one call before the next, as   *)
(* in the crate's examples.  The cookie store of reqwest is not modelled.  *)
(***************************************************************************)
EXTENDS Integers, Sequences, FiniteSets

VARIABLES
    builder,      \* the ClientBuilder being configured (Consumed once built)
    bootPc,       \* position of ClientBuilder::build
    landing,      \* what the landing-page fetch came back with
    bootFetches,  \* the URLs build has fetched, in order
    buildResult,  \* Result<Client> returned by build, as its Ok/Err shape
    client,       \* the Client (Option)
    now,          \* SystemTime::now() in milliseconds since the epoch
    call,         \* the API call the caller is awaiting or has just been returned
    sent          \* the API requests put on the wire, in order

vars == <<builder, bootPc, landing, bootFetches, buildResult, client, now, call, sent>>

(* ------------------------------ bounds --------------------------------- *)

\* API calls made on one session
MaxCalls == 2
\* milliseconds the clock may advance
MaxClock == 1
\* entries of a `list` array in a check_email response
MaxList == 2
\* the clock reading at the start: the last instant of two digits
FirstInstant == 100 - 1

(* ------------------------------ values --------------------------------- *)

None == [some |-> FALSE]
Some(x) == [some |-> TRUE, val |-> x]

Ok(x) == [kind |-> "ok", ok |-> x]
Err(e) == [kind |-> "err", err |-> e]

\* The crate's error kinds.  src/error.rs is not part of the sources; the
\* variants are the ones client.rs and the crate docs (lib.rs:14) name.
ErrorKinds == {"Request", "TokenParse", "ResponseParse", "Json"}

\* From<reqwest::Error> for Error, used by every `?` on a reqwest result.
FromReqwestError == Err("Request")

\* JSON values (serde_json::Value)
JNull == [kind |-> "null"]
JNum(n) == [kind |-> "num", num |-> n]
JStr(s) == [kind |-> "str", str |-> s]
JArr(a) == [kind |-> "arr", arr |-> a]
\* an object is the sequence of its <<key, value>> members
JObj(members) == [kind |-> "obj", obj |-> members]
\* a body that is not JSON
NotJson == [kind |-> "text"]

\* Value::get(key): the member of an object, None for anything else
JGet(j, key) ==
    IF j.kind = "obj" /\ \E i \in DOMAIN j.obj : j.obj[i][1] = key
    THEN LET i == CHOOSE i \in DOMAIN j.obj :
                     /\ j.obj[i][1] = key
                     /\ \A k \in DOMAIN j.obj : j.obj[k][1] = key => k <= i
         IN Some(j.obj[i][2])
    ELSE None

\* Value::as_str
JAsStr(j) == IF j.kind = "str" THEN Some(j.str) ELSE None

\* Value::as_array
JAsArray(j) == IF j.kind = "arr" THEN Some(j.arr) ELSE None

\* network outcomes of send()
TransportFailure == [kind |-> "failure"]
Http(status, body) == [kind |-> "http", status |-> status, body |-> body]

\* a success, a redirection that reqwest hands back, and a client error
Statuses == {200, 304, 404}

\* StatusCode::is_success
is_success(status) == status >= 200 /\ status < 300

\* Response::error_for_status: the error of a 4xx/5xx status, else nothing
error_for_status(status) ==
    IF status >= 400 /\ status < 600 THEN Some(FromReqwestError) ELSE None

\* Response::json: the body parsed as a serde_json::Value
json(body) == IF body.kind = "text" THEN FromReqwestError ELSE Ok(body)

(* ------------------------- character classes --------------------------- *)

Digits == <<"0", "1", "2", "3", "4", "5", "6", "7", "8", "9">>

Lower == {"a", "b", "c", "d", "e", "f", "g", "h", "i", "j", "k", "l", "m",
          "n", "o", "p", "q", "r", "s", "t", "u", "v", "w", "x", "y", "z"}
Upper == {"A", "B", "C", "D", "E", "F", "G", "H", "I", "J", "K", "L", "M",
          "N", "O", "P", "Q", "R", "S", "T", "U", "V", "W", "X", "Y", "Z"}

\* \w of the regex crate, on the characters the pages use
WordChars == Lower \cup Upper \cup {Digits[i] : i \in DOMAIN Digits} \cup {"_"}

\* \s of the regex crate
SpaceChars == {" ", "\t", "\n", "\r", "\f"}

\* u128::to_string: the decimal digits, most significant first
RECURSIVE to_string(_)
to_string(n) ==
    IF n < 10 THEN <<Digits[n + 1]>>
    ELSE to_string(n \div 10) \o <<Digits[(n % 10) + 1]>>

(* ---------------------------- the builder ------------------------------ *)

BASE_URL == <<"https://www.guerrillamail.com">>
AJAX_URL == <<"https://www.guerrillamail.com/ajax.php">>
USER_AGENT_VALUE ==
    <<"Mozilla/5.0 (Windows NT 10.0; Win64; x64; rv:131.0) Gecko/20100101 Firefox/131.0">>

Consumed == [consumed |-> TRUE]

\* ClientBuilder::new
ClientBuilder_new ==
    [consumed |-> FALSE,
     proxy |-> None,
     danger_accept_invalid_certs |-> TRUE,
     user_agent |-> USER_AGENT_VALUE,
     ajax_url |-> AJAX_URL]

ProxyInputs == { <<"http", "://", "127.0.0.1:8080">>, <<"not a url">> }
UserAgentInputs == { <<"my-app/1.0">>, <<"bad", "\n", "agent">> }
AjaxUrlInputs == { <<"http://127.0.0.1:9999/ajax.php">> }

\* reqwest::Proxy::all: Err unless the text is a URL (scheme "://" rest)
ProxyParses(p) == Len(p) >= 3 /\ p[2] = "://"

\* HeaderValue::from_str: Err on a control character
HeaderValueOk(v) == \A i \in DOMAIN v : v[i] \notin {"\n", "\r"}

(* --------------------------- landing pages ----------------------------- *)

ApiTokenLit == <<"a", "p", "i", "_", "t", "o", "k", "e", "n">>

\*  <>api_token : 'ab1';
PageSpaced ==
    <<"<", ">">> \o ApiTokenLit \o <<" ", ":", " ", "'", "a", "b", "1", "'", ";">>
\*  api_token:'Z9'
PageTight == ApiTokenLit \o <<":", "'", "Z", "9", "'">>
\*  api_token:'' api_token<TAB>:<LF>'k'
PageSecond ==
    ApiTokenLit \o <<":", "'", "'", " ">> \o ApiTokenLit \o <<"\t", ":", "\n", "'", "k", "'">>

\*  (empty page)
PageEmpty == <<>>
\*  <h1>502
PageError == <<"<", "h", "1", ">", "5", "0", "2">>
\*  api_token : ''
PageEmptyToken == ApiTokenLit \o <<" ", ":", " ", "'", "'">>
\*  api_token : 'a-b'
PageDashToken == ApiTokenLit \o <<" ", ":", " ", "'", "a", "-", "b", "'">>
\*  api_token = 'ab1'
PageEquals == ApiTokenLit \o <<" ", "=", " ", "'", "a", "b", "1", "'">>
\*  api_token:'ab
PageUnclosed == ApiTokenLit \o <<":", "'", "a", "b">>

\* pages that hold  api_token : '<alphanumeric>'  and pages that do not
TokenPages == {PageSpaced, PageTight, PageSecond}
TokenlessPages ==
    {PageEmpty, PageError, PageEmptyToken, PageDashToken, PageEquals, PageUnclosed}
LandingPages == TokenPages \cup TokenlessPages

\* the first position from i on that is past the text or not in the class
SkipWhile(s, i, class) ==
    CHOOSE j \in i..(Len(s) + 1) :
        /\ \A k \in i..(j - 1) : s[k] \in class
        /\ j = Len(s) + 1 \/ s[j] \notin class

HasPrefixAt(s, i, p) ==
    /\ i + Len(p) - 1 <= Len(s)
    /\ \A k \in 1..Len(p) : s[i + k - 1] = p[k]

\* the regex  api_token\s*:\s*'(\w{least,})'  anchored at position i: group 1
TokenGroupAt(s, i, least) ==
    IF ~HasPrefixAt(s, i, ApiTokenLit) THEN None
    ELSE LET colon == SkipWhile(s, i + Len(ApiTokenLit), SpaceChars) IN
         IF ~HasPrefixAt(s, colon, <<":">>) THEN None
         ELSE LET open == SkipWhile(s, colon + 1, SpaceChars) IN
              IF ~HasPrefixAt(s, open, <<"'">>) THEN None
              ELSE LET close == SkipWhile(s, open + 1, WordChars) IN
                   IF close < open + 1 + least \/ ~HasPrefixAt(s, close, <<"'">>)
                   THEN None
                   ELSE Some(SubSeq(s, open + 1, close - 1))

\* the pattern written with (\w*): an empty token matches
MatchAt_star(s, i) == TokenGroupAt(s, i, 0)

\* the regex of build, api_token\s*:\s*'(\w+)', anchored at position i
MatchAt(s, i) == TokenGroupAt(s, i, 1)

\* token_re.captures(&response).and_then(|c| c.get(1)): the leftmost match
captures(s) ==
    IF \E i \in 1..Len(s) : MatchAt(s, i).some
    THEN MatchAt(s, CHOOSE i \in 1..Len(s) :
             MatchAt(s, i).some /\ \A k \in 1..(i - 1) : ~MatchAt(s, k).some)
    ELSE None

(* ------------------------- ClientBuilder::build ------------------------ *)

NoCall == [pc |-> "idle", id |-> 0]

InitBuild ==
    /\ builder = ClientBuilder_new
    /\ bootPc = "builder"
    /\ landing = None
    /\ bootFetches = <<>>
    /\ buildResult = None
    /\ client = None
    /\ now = FirstInstant
    /\ call = NoCall
    /\ sent = <<>>

api == <<now, call, sent>>
boot == <<builder, bootPc, landing, bootFetches, buildResult, client>>

\* ClientBuilder::proxy
SetProxy ==
    /\ bootPc = "builder"
    /\ \E p \in ProxyInputs : builder' = [builder EXCEPT !.proxy = Some(p)]
    /\ UNCHANGED <<bootPc, landing, bootFetches, buildResult, client, api>>

\* ClientBuilder::danger_accept_invalid_certs
SetDangerAcceptInvalidCerts ==
    /\ bootPc = "builder"
    /\ \E v \in BOOLEAN :
           builder' = [builder EXCEPT !.danger_accept_invalid_certs = v]
    /\ UNCHANGED <<bootPc, landing, bootFetches, buildResult, client, api>>

\* ClientBuilder::user_agent
SetUserAgent ==
    /\ bootPc = "builder"
    /\ \E ua \in UserAgentInputs : builder' = [builder EXCEPT !.user_agent = ua]
    /\ UNCHANGED <<bootPc, landing, bootFetches, buildResult, client, api>>

\* ClientBuilder::ajax_url
SetAjaxUrl ==
    /\ bootPc = "builder"
    /\ \E u \in AjaxUrlInputs : builder' = [builder EXCEPT !.ajax_url = u]
    /\ UNCHANGED <<bootPc, landing, bootFetches, buildResult, client, api>>

\* the Client that build returns for a builder and a scraped token
NewClient(b, token) ==
    [api_token |-> token,
     proxy |-> b.proxy,
     user_agent |-> b.user_agent,
     ajax_url |-> b.ajax_url]

\* build, up to its first await: the proxy is parsed, the reqwest client is
\* built, and the landing-page GET is sent
BuildSend ==
    /\ bootPc = "builder"
    /\ builder.proxy.some => ProxyParses(builder.proxy.val)
    /\ bootPc' = "fetching"
    /\ bootFetches' = Append(bootFetches, BASE_URL)
    /\ UNCHANGED <<builder, landing, buildResult, client, api>>

\* build: reqwest::Proxy::all(proxy_url)? fails
BuildProxyError ==
    /\ bootPc = "builder"
    /\ builder.proxy.some /\ ~ProxyParses(builder.proxy.val)
    /\ bootPc' = "done"
    /\ buildResult' = FromReqwestError
    /\ builder' = Consumed
    /\ UNCHANGED <<landing, bootFetches, client, api>>

\* build: builder.cookie_store(true).build()? fails (no TLS backend, say)
BuildHttpClientError ==
    /\ bootPc = "builder"
    /\ builder.proxy.some => ProxyParses(builder.proxy.val)
    /\ bootPc' = "done"
    /\ buildResult' = FromReqwestError
    /\ builder' = Consumed
    /\ UNCHANGED <<landing, bootFetches, client, api>>

\* what build returns once the landing-page fetch has come back with r
build_result(r) ==
    IF r.kind = "failure" THEN FromReqwestError
    ELSE LET token == captures(r.body) IN
         IF token.some THEN Ok(token.val) ELSE Err("TokenParse")

\* build, from the landing-page response to its return
BuildReturn ==
    /\ bootPc = "fetching"
    /\ \E r \in {TransportFailure}
                  \cup {Http(s, p) : s \in Statuses, p \in LandingPages} :
           /\ landing' = Some(r)
           /\ buildResult' = build_result(r)
           /\ client' = IF build_result(r).kind = "ok"
                        THEN Some(NewClient(builder, build_result(r).ok))
                        ELSE None
    /\ bootPc' = "done"
    /\ builder' = Consumed
    /\ UNCHANGED <<bootFetches, api>>

NextBuild ==
    \/ SetProxy
    \/ SetDangerAcceptInvalidCerts
    \/ SetUserAgent
    \/ SetAjaxUrl
    \/ BuildSend
    \/ BuildProxyError
    \/ BuildHttpClientError
    \/ BuildReturn

SpecBuild == InitBuild /\ [][NextBuild]_vars

(* ------------------------------- Client -------------------------------- *)

Insert(h, k, v) == [x \in (DOMAIN h) \cup {k} |-> IF x = k THEN v ELSE h[x]]
Remove(h, k) == [x \in (DOMAIN h) \ {k} |-> h[x]]

\* Vec::insert(index, element), index counted from 0
VecInsert(v, index, e) == SubSeq(v, 1, index) \o <<e>> \o SubSeq(v, index + 1, Len(v))

\* the value of the first pair with this key in a query or a form, if any
Param(pairs, key) ==
    IF \E i \in DOMAIN pairs : pairs[i][1] = key
    THEN Some(pairs[CHOOSE i \in DOMAIN pairs :
                  /\ pairs[i][1] = key
                  /\ \A k \in 1..(i - 1) : pairs[k][1] # key][2])
    ELSE None

\* the headers of Client::headers other than Authorization
base_headers(c) ==
    LET h0 == Insert(<<>>, "host", <<"www.guerrillamail.com">>)
        h1 == IF HeaderValueOk(c.user_agent)
              THEN Insert(h0, "user-agent", c.user_agent) ELSE h0
        h2 == Insert(h1, "accept", <<"application/json, text/javascript, */*; q=0.01">>)
        h3 == Insert(h2, "accept-language", <<"en-US,en;q=0.5">>)
        h4 == Insert(h3, "content-type",
                     <<"application/x-www-form-urlencoded; charset=UTF-8">>)
        h6 == Insert(h4, "x-requested-with", <<"XMLHttpRequest">>)
        h7 == Insert(h6, "origin", <<"https://www.guerrillamail.com">>)
        h8 == Insert(h7, "referer", <<"https://www.guerrillamail.com/">>)
        h9 == Insert(h8, "sec-fetch-dest", <<"empty">>)
        h10 == Insert(h9, "sec-fetch-mode", <<"cors">>)
        h11 == Insert(h10, "sec-fetch-site", <<"same-origin">>)
    IN Insert(h11, "priority", <<"u=0">>)

\* headers() with the token left out of the Authorization value
headers_without_token(c) == Insert(base_headers(c), "authorization", <<"ApiToken ">>)

\* Client::headers
headers(c) ==
    Insert(base_headers(c), "authorization", <<"ApiToken ">> \o c.api_token)

\* extract_alias written with rsplit: the text after the last '@'
extract_alias_rsplit(email) ==
    IF \E i \in DOMAIN email : email[i] = "@"
    THEN LET i == CHOOSE i \in DOMAIN email :
                     email[i] = "@" /\ \A k \in (i + 1)..Len(email) : email[k] # "@"
         IN SubSeq(email, i + 1, Len(email))
    ELSE email

\* Client::extract_alias: email.split('@').next().unwrap_or(email)
extract_alias(email) ==
    IF \E i \in DOMAIN email : email[i] = "@"
    THEN LET i == CHOOSE i \in DOMAIN email :
                     email[i] = "@" /\ \A k \in 1..(i - 1) : email[k] # "@"
         IN SubSeq(email, 1, i - 1)
    ELSE email

\* timestamp() written with as_secs
timestamp_as_secs == to_string(now \div 1000)

\* Client::timestamp: the clock in milliseconds, stringified
timestamp == to_string(now)

\* the request create_email sends
create_email_request(c, alias) ==
    [method |-> "POST",
     url |-> c.ajax_url,
     query |-> << <<"f", <<"set_email_user">> >> >>,
     form |-> << <<"email_user", alias>>,
                 <<"lang", <<"en">> >>,
                 <<"site", <<"guerrillamail.com">> >>,
                 <<"in", <<" Set cancel">> >> >>,
     headers |-> headers(c)]

\* the request delete_email sends
delete_email_request(c, email) ==
    [method |-> "POST",
     url |-> c.ajax_url,
     query |-> << <<"f", <<"forget_me">> >> >>,
     form |-> << <<"site", <<"guerrillamail.com">> >>,
                 <<"in", extract_alias(email)>> >>,
     headers |-> headers(c)]

\* the request get_api sends
get_api_request(c, function, email, email_id) ==
    LET params0 == << <<"f", <<function>> >>,
                      <<"site", <<"guerrillamail.com">> >>,
                      <<"in", extract_alias(email)>>,
                      <<"_", timestamp>> >>
        params1 == IF email_id.some
                   THEN VecInsert(params0, 1, <<"email_id", email_id.val>>)
                   ELSE params0
        params2 == IF function = "check_email"
                   THEN VecInsert(params1, 1, <<"seq", <<"1">> >>)
                   ELSE params1
    IN [method |-> "GET",
        url |-> c.ajax_url,
        query |-> params2,
        form |-> <<>>,
        headers |-> Remove(headers(c), "content-type")]

(* ------------------------------ decoding ------------------------------- *)

\* The fields of Message and EmailDetails.  src/models.rs is not part of the
\* sources: a summary is identifier, sender, subject and arrival metadata,
\* a detail is a summary plus the body.
MessageFields == {"mail_id", "mail_from", "mail_subject", "mail_timestamp"}
EmailDetailsFields == MessageFields \cup {"mail_body"}

\* serde_json::from_value into a struct of string fields: every field must
\* be there as a string; members the struct does not name are ignored
from_value(j, fields) ==
    IF /\ j.kind = "obj"
       /\ \A f \in fields : JGet(j, f).some /\ JGet(j, f).val.kind = "str"
    THEN Ok([f \in fields |-> JGet(j, f).val.str])
    ELSE Err("serde")

\* send().await?.error_for_status()?.json().await of create_email and get_api
checked_json(r) ==
    IF r.kind = "failure" THEN FromReqwestError
    ELSE IF error_for_status(r.status).some THEN error_for_status(r.status).val
    ELSE json(r.body)

\* Client::get_api, from the response on
get_api_result(r) == checked_json(r)

\* Client::create_email, from the response on
create_email_result(r) ==
    LET response == checked_json(r) IN
    IF response.kind = "err" THEN response
    ELSE LET addr == JGet(response.ok, "email_addr") IN
         IF addr.some /\ JAsStr(addr.val).some
         THEN Ok(JAsStr(addr.val).val)
         ELSE Err("TokenParse")

\* the collection written with map_while: it stops at the first entry that
\* does not decode
RECURSIVE filter_map_messages_map_while(_)
filter_map_messages_map_while(arr) ==
    IF arr = <<>> THEN <<>>
    ELSE LET m == from_value(Head(arr), MessageFields) IN
         IF m.kind = "ok"
         THEN <<m.ok>> \o filter_map_messages_map_while(Tail(arr))
         ELSE <<>>

\* filter_map(|v| from_value::<Message>(v).ok()).collect()
RECURSIVE filter_map_messages(_)
filter_map_messages(arr) ==
    IF arr = <<>> THEN <<>>
    ELSE LET m == from_value(Head(arr), MessageFields) IN
         (IF m.kind = "ok" THEN <<m.ok>> ELSE <<>>) \o filter_map_messages(Tail(arr))

\* Client::get_messages, from the response of get_api on
get_messages_result(r) ==
    LET response == get_api_result(r) IN
    IF response.kind = "err" THEN response
    ELSE LET list == JGet(response.ok, "list") IN
         IF list.some /\ JAsArray(list.val).some
         THEN Ok(filter_map_messages(JAsArray(list.val).val))
         ELSE Ok(<<>>)

\* Client::fetch_email, from the response of get_api on
fetch_email_result(r) ==
    LET response == get_api_result(r) IN
    IF response.kind = "err" THEN response
    ELSE LET details == from_value(response.ok, EmailDetailsFields) IN
         IF details.kind = "ok" THEN details ELSE Err("TokenParse")

\* delete_email written with error_for_status()?, like the other calls
delete_email_result_checked(r) ==
    IF r.kind = "failure" THEN FromReqwestError
    ELSE IF error_for_status(r.status).some THEN error_for_status(r.status).val
    ELSE Ok(TRUE)

\* Client::delete_email, from the outcome of send() on
delete_email_result(r) ==
    IF r.kind = "failure" THEN FromReqwestError
    ELSE Ok(is_success(r.status))

(* ------------------------------- inputs -------------------------------- *)

\*  foo@bar.com
EmailFoo == <<"f", "o", "o", "@", "b", "a", "r", ".", "c", "o", "m">>
\*  nobody
EmailNoAt == <<"n", "o", "b", "o", "d", "y">>
\*  a@b@c
EmailTwoAts == <<"a", "@", "b", "@", "c">>

Emails == {EmailFoo, EmailNoAt, EmailTwoAts}
Aliases == { <<"f", "o", "o">> }
MailIds == { <<"1">> }

\*  foo@guerrillamail.com, and the address the service gives when it alters the alias
AddrFoo == <<"f", "o", "o", "@", "guerrillamail.com">>
AddrOther == <<"x", "7", "@", "guerrillamail.com">>

CreateBodies ==
    {NotJson,
     JObj(<<>>),
     JObj(<< <<"email_addr", JStr(AddrFoo)>> >>),
     JObj(<< <<"alias", JStr(<<"foo">>)>>, <<"email_addr", JStr(AddrOther)>> >>),
     JObj(<< <<"email_addr", JNull>> >>)}

MsgMembers(id) ==
    << <<"mail_id", JStr(id)>>,
       <<"mail_from", JStr(<<"a@x.org">>)>>,
       <<"mail_subject", JStr(<<"hi">>)>>,
       <<"mail_timestamp", JStr(<<"1700000000">>)>> >>

\* well-formed entries (MsgB has a member that Message does not name)
MsgA == JObj(MsgMembers(<<"1">>))
MsgB == JObj(<< <<"mail_read", JNum(0)>> >> \o MsgMembers(<<"2">>))
\* malformed entries: no sender; not an object
MsgNoSender == JObj(<<MsgMembers(<<"3">>)[1], MsgMembers(<<"3">>)[3], MsgMembers(<<"3">>)[4]>>)
MsgNotObject == JStr(<<"junk">>)

WellFormedEntries == {MsgA, MsgB}
MalformedEntries == {MsgNoSender, MsgNotObject}
ListEntries == WellFormedEntries \cup MalformedEntries

\* the summary a well-formed entry stands for
SummaryOf(e) ==
    [mail_id |-> IF e = MsgA THEN <<"1">> ELSE <<"2">>,
     mail_from |-> <<"a@x.org">>,
     mail_subject |-> <<"hi">>,
     mail_timestamp |-> <<"1700000000">>]

Lists == UNION {[1..n -> ListEntries] : n \in 0..MaxList}

ListBody(l) == JObj(<< <<"list", JArr(l)>> >>)

\* bodies that hold no `list` array, and every list up to MaxList entries
ListlessBodies == {NotJson, JObj(<<>>), JObj(<< <<"list", JStr(<<"none">>)>> >>)}
ListBodies == ListlessBodies \cup {ListBody(l) : l \in Lists}

\* the bodies the calls of a whole session are checked with
SampleListBodies ==
    {NotJson, JObj(<<>>), ListBody(<<>>), ListBody(<<MsgNoSender, MsgB>>)}

\* a full message detail, and responses that are not one
DetailFull == JObj(MsgMembers(<<"1">>) \o << <<"mail_body", JStr(<<"<p>hello</p>">>)>> >>)
DetailNoBody == JObj(MsgMembers(<<"1">>))
DetailBodyNull == JObj(MsgMembers(<<"1">>) \o << <<"mail_body", JNull>> >>)
DetailNotObject == JArr(<<>>)

WellFormedDetails == {DetailFull}
MalformedDetails == {DetailNoBody, DetailBodyNull, DetailNotObject}
FetchBodies == {NotJson} \cup WellFormedDetails \cup MalformedDetails

DeleteBodies == {NotJson, JObj(<<>>)}

\* the outcomes of send(): no response; a 2xx response with any of the bodies;
\* another status with a body that is not JSON or with one that would decode
Responses(bodies, decodable) ==
    {TransportFailure}
        \cup {Http(s, b) : s \in {x \in Statuses : is_success(x)}, b \in bodies}
        \cup {Http(s, b) : s \in {x \in Statuses : ~is_success(x)},
                           b \in {NotJson, decodable}}

(* ------------------------------ API calls ------------------------------ *)

\* the landing page and the builder a session came from: the defaults, and
\* every setting overridden, with a user agent that is no header value
Sessions ==
    { <<PageSpaced, ClientBuilder_new>>,
      <<PageSecond, [ClientBuilder_new EXCEPT
                         !.proxy = Some(<<"http", "://", "127.0.0.1:8080">>),
                         !.user_agent = <<"bad", "\n", "agent">>,
                         !.ajax_url = <<"http://127.0.0.1:9999/ajax.php">>]>> }

\* the state in which ClientBuilder::build has returned Ok(client)
Init ==
    /\ \E session \in Sessions :
           /\ landing = Some(Http(200, session[1]))
           /\ buildResult = build_result(Http(200, session[1]))
           /\ client = Some(NewClient(session[2], captures(session[1]).val))
    /\ builder = Consumed
    /\ bootPc = "done"
    /\ bootFetches = <<BASE_URL>>
    /\ now = FirstInstant
    /\ call = NoCall
    /\ sent = <<>>

\* the clock advances a millisecond
Tick ==
    /\ now < FirstInstant + MaxClock
    /\ now' = now + 1
    /\ UNCHANGED <<boot, call, sent>>

CanCall == client.some /\ call.pc \in {"idle", "returned"} /\ call.id < MaxCalls

\* a call up to its await of send(): the request goes on the wire
Send(op, arg, request) ==
    /\ call' = [pc |-> "awaiting", id |-> call.id + 1, op |-> op, arg |-> arg,
                request |-> request]
    /\ sent' = Append(sent, [call |-> call.id + 1, at |-> now, request |-> request])
    /\ UNCHANGED <<boot, now>>

\* a call from the outcome of send() to its return
Return(r, result) ==
    /\ call' = [pc |-> "returned", id |-> call.id, op |-> call.op, arg |-> call.arg,
                request |-> call.request, response |-> r, result |-> result]
    /\ UNCHANGED <<boot, now, sent>>

create_email_send ==
    /\ CanCall
    /\ \E alias \in Aliases :
           Send("create_email", alias, create_email_request(client.val, alias))

create_email_return ==
    /\ call.pc = "awaiting" /\ call.op = "create_email"
    /\ \E r \in Responses(CreateBodies, JObj(<< <<"email_addr", JStr(AddrFoo)>> >>)) : Return(r, create_email_result(r))

get_messages_send ==
    /\ CanCall
    /\ \E email \in Emails :
           Send("get_messages", email,
                get_api_request(client.val, "check_email", email, None))

\* get_messages that sends the request again when the first attempt fails
GetMessagesReturn_retry(bodies) ==
    /\ call.pc = "awaiting" /\ call.op = "get_messages"
    /\ \E r \in Responses(bodies, ListBody(<<MsgA>>)) :
           IF get_messages_result(r).kind = "err"
              /\ Cardinality({i \in DOMAIN sent : sent[i].call = call.id}) < 2
           THEN /\ sent' = Append(sent, [call |-> call.id, at |-> now,
                                         request |-> call.request])
                /\ UNCHANGED <<boot, now, call>>
           ELSE Return(r, get_messages_result(r))

\* get_messages from the outcome of send() to its return
GetMessagesReturn(bodies) ==
    /\ call.pc = "awaiting" /\ call.op = "get_messages"
    /\ \E r \in Responses(bodies, ListBody(<<MsgA>>)) :
           Return(r, get_messages_result(r))

get_messages_return == GetMessagesReturn(SampleListBodies)

fetch_email_send ==
    /\ CanCall
    /\ \E email \in Emails, mail_id \in MailIds :
           Send("fetch_email", email,
                get_api_request(client.val, "fetch_email", email, Some(mail_id)))

fetch_email_return ==
    /\ call.pc = "awaiting" /\ call.op = "fetch_email"
    /\ \E r \in Responses(FetchBodies, DetailFull) : Return(r, fetch_email_result(r))

delete_email_send ==
    /\ CanCall
    /\ \E email \in Emails :
           Send("delete_email", email, delete_email_request(client.val, email))

delete_email_return ==
    /\ call.pc = "awaiting" /\ call.op = "delete_email"
    /\ \E r \in Responses(DeleteBodies, JObj(<<>>)) : Return(r, delete_email_result(r))

Next ==
    \/ Tick
    \/ create_email_send
    \/ create_email_return
    \/ get_messages_send
    \/ get_messages_return
    \/ fetch_email_send
    \/ fetch_email_return
    \/ delete_email_send
    \/ delete_email_return

Spec == Init /\ [][Next]_vars

(* ---------------------- get_messages on every list --------------------- *)

\* a get_messages call awaiting its response, on either session
InitList ==
    /\ \E session \in Sessions :
           /\ landing = Some(Http(200, session[1]))
           /\ buildResult = build_result(Http(200, session[1]))
           /\ client = Some(NewClient(session[2], captures(session[1]).val))
    /\ builder = Consumed
    /\ bootPc = "done"
    /\ bootFetches = <<BASE_URL>>
    /\ now = FirstInstant
    /\ \E email \in Emails :
           LET request == get_api_request(client.val, "check_email", email, None) IN
           /\ call = [pc |-> "awaiting", id |-> 1, op |-> "get_messages",
                      arg |-> email, request |-> request]
           /\ sent = <<[call |-> 1, at |-> now, request |-> request]>>

list_get_messages_return == GetMessagesReturn(ListBodies)

NextList == list_get_messages_return

SpecList == InitList /\ [][NextList]_vars

(* ------------------------------- claims -------------------------------- *)

Returned(op) == call.pc = "returned" /\ call.op = op
InSuccessRange(status) == status \in 200..299

\* the number a decimal text stands for
DigitValue(ch) == CHOOSE d \in 0..9 : Digits[d + 1] = ch
RECURSIVE FromDigits(_)
FromDigits(text) ==
    IF text = <<>> THEN 0
    ELSE 10 * FromDigits(SubSeq(text, 1, Len(text) - 1)) + DigitValue(text[Len(text)])

IsGet(i) == sent[i].request.method = "GET"
TimestampOf(i) == Param(sent[i].request.query, "_")

\* C1 as stated: every request sent after bootstrap, by any of the four
\* calls, carries the cache-busting query parameter `_`.
C1_EveryRequestCarriesTimestamp ==
    \A i \in DOMAIN sent : TimestampOf(i).some

\* C1 as amended: every GET request (get_messages, fetch_email) carries a `_`
\* query parameter whose value is the millisecond clock at the call, so it
\* strictly increases between two such calls made a millisecond or more
\* apart; the POST requests of create_email and delete_email carry no `_`.
C1_GetRequestsCarryFreshTimestamp ==
    /\ \A i \in DOMAIN sent :
           IF IsGet(i)
           THEN /\ TimestampOf(i).some
                /\ \A k \in DOMAIN TimestampOf(i).val :
                       \E d \in DOMAIN Digits : TimestampOf(i).val[k] = Digits[d]
                /\ FromDigits(TimestampOf(i).val) = sent[i].at
           ELSE /\ ~TimestampOf(i).some
                /\ ~Param(sent[i].request.form, "_").some
    /\ \A i, j \in DOMAIN sent :
           IsGet(i) /\ IsGet(j) /\ sent[i].at < sent[j].at
               => TimestampOf(i).val # TimestampOf(j).val

\* two GET requests made a millisecond apart, the second one returned
C1_Witness ==
    /\ \E i, j \in DOMAIN sent : IsGet(i) /\ IsGet(j) /\ sent[j].at = sent[i].at + 1
    /\ call.pc = "returned"

\* C2: build fails with a transport error (Error::Request) and yields no
\* Client whenever the landing-page fetch returns a non-success status,
\* whatever the page body.
C2_NonSuccessStatusFailsBuild ==
    (/\ bootPc = "done"
     /\ landing.some
     /\ landing.val.kind = "http"
     /\ ~InSuccessRange(landing.val.status))
        => buildResult = Err("Request") /\ client = None

\* C3: every request of every call carries an Authorization header that
\* embeds the token scraped at bootstrap, and no call changes the session's
\* token, endpoint URL or user agent.
C3_TokenOnEveryRequestSessionImmutable ==
    /\ [](LET scraped == captures(landing.val.body).val IN
          /\ client.val.api_token = scraped
          /\ \A i \in DOMAIN sent :
                 /\ "authorization" \in DOMAIN sent[i].request.headers
                 /\ sent[i].request.headers["authorization"] = <<"ApiToken ">> \o scraped
                 /\ sent[i].request.url = client.val.ajax_url)
    /\ [][client' = client]_vars

\* a GET and a POST have been sent and the second call has returned
C3_Witness ==
    /\ Len(sent) = 2
    /\ \E i, j \in DOMAIN sent : IsGet(i) /\ ~IsGet(j)
    /\ call.pc = "returned"

\* C4: when the fetched landing page lacks the token pattern, build fails
\* with Error::TokenParse, yields no Client, and has made no network call
\* beyond the one landing-page fetch.
C4_TokenlessPageFailsBuild ==
    (/\ bootPc = "done"
     /\ landing.some
     /\ landing.val.kind = "http"
     /\ landing.val.body \in TokenlessPages)
        => /\ buildResult = Err("TokenParse")
           /\ client = None
           /\ bootFetches = <<BASE_URL>>
           /\ sent = <<>>

\* build has returned on a page whose token is empty
C4_Witness ==
    /\ bootPc = "done"
    /\ landing = Some(Http(200, PageEmptyToken))
    /\ buildResult.kind = "err"

IsWellFormedEntry(e) == e \in WellFormedEntries

\* the summaries of the well-formed entries of a list, in its order
ExpectedSummaries(l) ==
    LET kept == SelectSeq(l, IsWellFormedEntry)
    IN [i \in 1..Len(kept) |-> SummaryOf(kept[i])]

\* C5: for a 2xx response whose `list` array holds N well-formed and M
\* malformed entries in any order, get_messages returns Ok with exactly the
\* N well-formed summaries, in order; an empty array gives an empty list.
C5_ListKeepsExactlyWellFormed ==
    (/\ Returned("get_messages")
     /\ call.response.kind = "http"
     /\ InSuccessRange(call.response.status))
        => \A l \in Lists :
               call.response.body = ListBody(l)
                   => /\ call.result = Ok(ExpectedSummaries(l))
                      /\ Len(call.result.ok)
                             = Cardinality({i \in DOMAIN l : l[i] \in WellFormedEntries})

\* a list with a malformed entry before a well-formed one has been returned
C5_Witness ==
    /\ Returned("get_messages")
    /\ call.response = Http(200, ListBody(<<MsgNoSender, MsgB>>))
    /\ Len(call.result.ok) = 1

\* C6: when a 2xx JSON response does not decode into a message detail,
\* fetch_email fails with the response-shape error kind the crate docs name
\* (Error::ResponseParse or Error::Json).
C6_FetchDecodeFailureIsResponseParse ==
    (/\ Returned("fetch_email")
     /\ call.response.kind = "http"
     /\ InSuccessRange(call.response.status)
     /\ call.response.body \in MalformedDetails)
        => call.result.kind = "err" /\ call.result.err \in {"ResponseParse", "Json"}

C8_CreateReturnsAddressOrFails ==
    (Returned("create_email") /\ call.response.kind = "http")
        => LET body == call.response.body
               addr == JGet(body, "email_addr")
           IN IF ~InSuccessRange(call.response.status)
              THEN call.result = Err("Request")
              ELSE /\ (addr.some /\ addr.val.kind = "str")
                          => call.result = Ok(addr.val.str)
                   /\ (body.kind = "obj" /\ ~addr.some)
                          => /\ call.result.kind = "err"
                             /\ call.result.err
                                    \in {"TokenParse", "ResponseParse", "Json"}

IsAliasCall == call.pc # "idle" /\ call.op \in {"get_messages", "fetch_email", "delete_email"}

\* the `in` parameter of the call's request: in the query of a GET, in the
\* form of a POST
AliasSent ==
    IF call.request.method = "GET"
    THEN Param(call.request.query, "in")
    ELSE Param(call.request.form, "in")

NoAt(text) == \A i \in DOMAIN text : text[i] # "@"

\* C9: the alias that get_messages, fetch_email and delete_email send is the
\* text before the first `@` of the address (foo for foo@bar.com), and the
\* whole address when it holds no `@`.
C9_AliasIsTextBeforeFirstAt ==
    IsAliasCall
        => /\ AliasSent.some
           /\ LET alias == AliasSent.val
                  email == call.arg
              IN /\ NoAt(alias)
                 /\ IF NoAt(email)
                    THEN alias = email
                    ELSE email = alias \o <<"@">>
                                     \o SubSeq(email, Len(alias) + 2, Len(email))
                 /\ email = EmailFoo => alias = <<"f", "o", "o">>

\* a call on an address with two `@`
C9_Witness ==
    /\ IsAliasCall
    /\ call.arg = EmailTwoAts
    /\ AliasSent = Some(<<"a">>)

RequestsOf(id) == {i \in DOMAIN sent : sent[i].call = id}

\* C10: every call sends exactly one request, also when it ends in a
\* transport failure, a non-2xx status or a decode failure, and returns a
\* result or an error.
C10_OneRequestPerCall ==
    /\ \A id \in 1..call.id : Cardinality(RequestsOf(id)) = 1
    /\ Len(sent) = call.id
    /\ call.pc = "returned"
           => \/ call.result.kind = "ok"
              \/ call.result.kind = "err" /\ call.result.err \in ErrorKinds

\* the second call has returned an error on a response with an error status
C10_Witness ==
    /\ call.pc = "returned"
    /\ call.id = 2
    /\ call.response.kind = "http"
    /\ call.response.status = 404
    /\ call.result.kind = "err"

====
